---- MODULE Spec2Model ----
(***************************************************************************)
(* Model of kodbank1 (backend/user_service.py, auth_service.py,            *)
(* jwt_service.py, db.py, app.py): the transfer engine over the kodusers   *)
(* and transactions tables, and the JWT session-token lifecycle.           *)
(*                                                                         *)
(* Every execute_query call is one atomic step: db.py opens a connection,  *)
(* runs ONE statement and commits it (autonomous per-statement             *)
(* transactions).  Python-local computation between two statements is      *)
(* folded into the step of the statement that follows it.                  *)
(*                                                                         *)
(* Money is counted in whole currency units (the column type of balance is *)
(* declared in schema.sql, which is not part of the sources; floats are    *)
(* exact on the integers used here).  Usernames are tuples of one-char     *)
(* strings so that validate_username can be computed.  Time is counted in  *)
(* ticks, HourTicks ticks to the hour.                                     *)
(***************************************************************************)
EXTENDS Integers, Sequences, FiniteSets, TLC

VARIABLES
    kodusers,      \* table kodusers: username -> row (username is UNIQUE)
    transactions,  \* table transactions: sequence of rows, in insertion order
    cjwt,          \* table cjwt: sequence of rows [token, uid, expiry]
    now,           \* wall clock (datetime.utcnow()), in ticks
    worker,        \* per request worker: position in its handler and its locals
    issued,        \* tokens handed out to clients by successful logins
    calls          \* number of calls started so far (bounded by MaxCalls)

vars == <<kodusers, transactions, cjwt, now, worker, issued, calls>>

----------------------------------------------------------------------------
(* Bounds of the model *)

MaxCalls == 3
MaxTime == 2
HourTicks == 1

Workers == {1, 2}

(* Program constants *)

OPENING_BALANCE == 1000002
TESTS_INITIAL_BALANCE == 100000     \* the balance the unit tests assert
JWT_EXPIRY_HOURS == 1
MAX_USERNAME_LEN == 50
MIN_PASSWORD_LEN == 6
MAX_UID_LEN == 50
MIN_TLD_LEN == 2
MIN_PHONE_LEN == 10
MAX_PHONE_LEN == 20

----------------------------------------------------------------------------
(* Input alphabets *)

NoValue == <<>>            \* Python None / "" for a username or a token field

UA == <<"a">>
UB == <<"b">>
UC == <<"c">>
U7 == <<"7">>
LongName == [i \in 1..(MAX_USERNAME_LEN + 1) |-> "a"]

WordChars == {"a", "b", "c", "_", "7"}     \* sample of [a-zA-Z0-9_]
Letters == {"a", "b", "c", "x", "i", "o"}  \* sample of [a-zA-Z]
LocalChars == Letters \cup {"7", ".", "_", "%", "+", "-"}
DomainChars == Letters \cup {"7", ".", "-"}
PhoneChars == {"5", "0", "1", "2", "3", " ", "-", "(", ")", "+", "\n"}  \* sample of [\d\s\-()+]

Email(local) == <<local, "@", "x", ".", "i", "o">>
Phone(d) == <<"5", "5", "5", "0", "0", "0", "0", "0", "0", d>>

\* An amount as it arrives is [num, val]: a number val, or (num = FALSE)
\* something float() cannot convert.

----------------------------------------------------------------------------
(* user_service.py: validators *)

\* re.match(r'^[a-zA-Z0-9_]+$', s): Python's $ also matches just before a
\* trailing newline
MatchesWordPattern(s) ==
    \E n \in 1..Len(s) :
        /\ \A i \in 1..n : s[i] \in WordChars
        /\ \/ n = Len(s)
           \/ n = Len(s) - 1 /\ s[Len(s)] = "\n"

validate_username(username) ==
    /\ username # NoValue
    /\ ~ (Len(username) > MAX_USERNAME_LEN \/ Len(username) < 1)
    /\ MatchesWordPattern(username)

validate_password(password) ==
    /\ password # ""
    /\ Len(password) >= MIN_PASSWORD_LEN

validate_uid(uid) ==
    /\ uid # ""
    /\ 0 < Len(uid) /\ Len(uid) <= MAX_UID_LEN

\* s[lo..hi] is a non-empty run of characters of class
Run(s, lo, hi, class) == lo <= hi /\ \A i \in lo..hi : s[i] \in class

\* the length of s without the trailing newline that $ lets through
EndOf(s) == {Len(s)} \cup (IF Len(s) > 0 /\ s[Len(s)] = "\n" THEN {Len(s) - 1} ELSE {})

\* re.match(r'^[a-zA-Z0-9._%+-]+@[a-zA-Z0-9.-]+\.[a-zA-Z]{2,}$', email)
validate_email(email) ==
    /\ email # NoValue
    /\ \E at \in 1..Len(email), dot \in 1..Len(email), n \in EndOf(email) :
           /\ email[at] = "@" /\ email[dot] = "."
           /\ Run(email, 1, at - 1, LocalChars)
           /\ Run(email, at + 1, dot - 1, DomainChars)
           /\ Run(email, dot + 1, n, Letters)
           /\ n - dot >= MIN_TLD_LEN

\* re.match(r'^[\d\s\-\(\)\+]{10,20}$', phone)
validate_phone(phone) ==
    /\ phone # NoValue
    /\ \E n \in EndOf(phone) :
           /\ Run(phone, 1, n, PhoneChars)
           /\ n >= MIN_PHONE_LEN /\ n <= MAX_PHONE_LEN

----------------------------------------------------------------------------
(* jwt_service.py: the signed token (PyJWT, HS256) *)

SERVER_KEY == "JWT_SECRET_KEY"
OTHER_KEY == "not the server's key"

NoToken == [kind |-> "none"]          \* no cookie / empty string
Garbage == [kind |-> "garbage"]       \* a non-empty string that is no JWT
NoPayload == [sub |-> NoValue, role |-> "", iat |-> -1, exp |-> -1]

\* The HMAC-SHA256 tag of header.payload under a key: an injective tag, of
\* which the final 4 bits are kept apart because the base64url text of a
\* 32-byte tag ends in a character holding those 4 bits and 2 padding bits.
TagBody(key, payload) == <<key, payload>>
TagTail(key, payload) ==
    (payload.iat + 3 * payload.exp + Len(payload.sub) + Len(key)) % 16

PaddingBits == 2

\* jwt.encode: the token text header.payload.signature; `last` is the final
\* base64url character of the signature (its 6-bit value)
jwt_encode(payload, key) ==
    [kind |-> "jwt", payload |-> payload,
     body |-> TagBody(key, payload),
     last |-> TagTail(key, payload) * (2 ^ PaddingBits)]

\* base64url_decode of the signature segment: the padding bits of the final
\* character are discarded, whatever they are
DecodedSignature(token) == <<token.body, token.last \div (2 ^ PaddingBits)>>

SignatureVerifies(token, key) ==
    DecodedSignature(token) =
        <<TagBody(key, token.payload), TagTail(key, token.payload)>>

\* faulty variant: the exp claim is not checked
Expired_unchecked(payload, t, at_exp) == FALSE

\* PyJWT's check of the exp claim at time t.  At t = exp the answer is that
\* of the installed PyJWT (exp <= now from 2.6 on, exp < now before):
\* at_exp is TRUE when it rejects there.
Expired(payload, t, at_exp) ==
    IF at_exp THEN payload.exp <= t ELSE payload.exp < t

\* jwt.decode(token, JWT_SECRET_KEY, algorithms=[HS256]) at time t:
\* "payload" on success, else the exception raised
jwt_decode(token, key, t, at_exp) ==
    IF token.kind # "jwt" THEN [raised |-> "DecodeError", payload |-> NoPayload]
    ELSE IF ~ SignatureVerifies(token, key)
        THEN [raised |-> "InvalidSignatureError", payload |-> NoPayload]
    ELSE IF Expired(token.payload, t, at_exp)
        THEN [raised |-> "ExpiredSignatureError", payload |-> NoPayload]
    ELSE [raised |-> "", payload |-> token.payload]

TokenTTL == JWT_EXPIRY_HOURS * HourTicks

\* faulty variant: the lifetime depends on the role
generate_token_ttl_by_role(username, role, t) ==
    jwt_encode([sub |-> username, role |-> role, iat |-> t,
                exp |-> t + (IF role = "customer" THEN TokenTTL ELSE 2 * TokenTTL)],
               SERVER_KEY)

generate_token(username, role, t) ==
    jwt_encode([sub |-> username, role |-> role, iat |-> t, exp |-> t + TokenTTL],
               SERVER_KEY)

\* token_exists (jwt_service.py 192-217): SELECT COUNT(*) FROM cjwt WHERE token
token_exists(token) ==
    token # NoToken /\ \E i \in 1..Len(cjwt) : cjwt[i].token = token

\* faulty variant: a token must also be in the token ledger
validate_token_in_ledger(token, t, at_exp) ==
    /\ token_exists(token)
    /\ jwt_decode(token, SERVER_KEY, t, at_exp).raised = ""

validate_token(token, t, at_exp) ==
    /\ token # NoToken
    /\ jwt_decode(token, SERVER_KEY, t, at_exp).raised = ""

decode_token(token, t, at_exp) ==
    IF token = NoToken THEN NoPayload
    ELSE jwt_decode(token, SERVER_KEY, t, at_exp).payload

----------------------------------------------------------------------------
(* auth_service.py: verify_token_from_request.  t1 is the clock when *)
(* validate_token runs, t2 >= t1 the clock when decode_token runs.    *)

Rejection(code, msg) ==
    [valid |-> FALSE, username |-> NoValue, message |-> msg, error_code |-> code]

\* faulty variant: the payload's subject is not looked at
verify_token_from_request_any_subject(token, t1, t2, at_exp) ==
    IF token = NoToken THEN Rejection("TOKEN_MISSING", "No token provided")
    ELSE IF ~ validate_token(token, t1, at_exp)
        THEN Rejection("TOKEN_INVALID", "Invalid or expired token")
    ELSE IF decode_token(token, t2, at_exp) = NoPayload
        THEN Rejection("TOKEN_INVALID", "Invalid token format")
    ELSE [valid |-> TRUE, username |-> decode_token(token, t2, at_exp).sub,
          message |-> "Token is valid", error_code |-> ""]

verify_token_from_request(token, t1, t2, at_exp) ==
    IF token = NoToken THEN Rejection("TOKEN_MISSING", "No token provided")
    ELSE IF ~ validate_token(token, t1, at_exp)
        THEN Rejection("TOKEN_INVALID", "Invalid or expired token")
    ELSE IF decode_token(token, t2, at_exp) = NoPayload
        THEN Rejection("TOKEN_INVALID", "Invalid token format")
    ELSE IF decode_token(token, t2, at_exp).sub = NoValue
        THEN Rejection("TOKEN_INVALID", "Invalid token: missing username")
    ELSE [valid |-> TRUE, username |-> decode_token(token, t2, at_exp).sub,
          message |-> "Token is valid", error_code |-> ""]

\* What a client can present, given the tokens issued so far: nothing, junk,
\* an issued token, an issued token with one part altered, or a token signed
\* with a key that is not the server's.
AlteredLast(tok) ==
    {[tok EXCEPT !.last = (tok.last + d) % 64] : d \in {1, 4}}
AlteredPayload(tok) ==
    {[tok EXCEPT !.payload.sub = u] : u \in {UA, UB} \ {tok.payload.sub}}
        \cup {[tok EXCEPT !.payload.exp = tok.payload.exp + 1]}
Forged(tok) == {jwt_encode(tok.payload, OTHER_KEY)}
Altered(tok) == AlteredLast(tok) \cup AlteredPayload(tok)
Presentable ==
    {NoToken, Garbage} \cup issued
        \cup UNION {Altered(tok) \cup Forged(tok) : tok \in issued}

----------------------------------------------------------------------------
(* The tables and the workers *)

hash_password(password) == [alg |-> "bcrypt", of |-> password]
verify_password(plain_password, hashed_password) ==
    hashed_password = hash_password(plain_password)

UserRow(uid, email, password, balance, phone) ==
    [uid |-> uid, email |-> email, password |-> hash_password(password),
     balance |-> balance, phone |-> phone]

Balances == [u \in DOMAIN kodusers |-> kodusers[u].balance]

\* user_service.py 308-336: SELECT balance FROM kodusers WHERE username = %s
get_balance(username) == Balances[username]

NoResult == [success |-> FALSE, error_code |-> "", message |-> "",
             sender_balance |-> 0, receiver_balance |-> 0, token |-> NoToken,
             uid |-> ""]
Failure(code) == [NoResult EXCEPT !.error_code = code]

Idle ==
    [pc |-> "idle", op |-> "none", entry |-> "none",
     token |-> NoToken, auth |-> Rejection("", ""),
     sender |-> NoValue, receiver |-> NoValue, amount |-> 0,
     sender_balance |-> 0, new_sender_balance |-> 0, new_receiver_balance |-> 0,
     body_sender |-> NoValue, verified_at |-> -1, decoded_at |-> -1,
     uid |-> "", username |-> NoValue, email |-> NoValue, password |-> "",
     phone |-> NoValue, jwt |-> NoToken, expiry |-> 0,
     result |-> NoResult, faulted_at |-> "", passed_check |-> FALSE,
     stored |-> FALSE, limit |-> 0, history |-> <<>>,
     amount_given |-> [num |-> FALSE, val |-> 0], balance |-> <<>>,
     pre |-> [balances |-> <<>>, transactions |-> <<>>]]

\* the statements of transfer_money, each one execute_query call
TransferSteps == {"get_sender", "get_receiver", "update_sender",
                  "update_receiver", "insert_transaction"}

Free(w) == worker[w].pc \in {"idle", "done"}

\* a request is taken by the first free worker of the pool
CanStart(w) == /\ Free(w)
               /\ \A v \in Workers : v < w => ~ Free(v)
               /\ calls < MaxCalls

Snapshot == [balances |-> Balances, transactions |-> transactions]

Init ==
    /\ kodusers = (UA :> UserRow("u1", Email("a"), "secret1", OPENING_BALANCE, Phone("1"))
                   @@ UB :> UserRow("u2", Email("b"), "secret2", OPENING_BALANCE, Phone("0")))
    /\ transactions = <<>>
    /\ cjwt = <<>>
    /\ now = 0
    /\ worker = [w \in Workers |-> Idle]
    /\ issued = {}
    /\ calls = 0

----------------------------------------------------------------------------
(* user_service.py: transfer_money *)

\* an amount float() cannot take: an integer beyond the range of a float,
\* for which line 378 raises OverflowError, caught by neither except clause
\* of line 385 nor the try block that starts at line 401
TooLargeInt == [num |-> FALSE, val |-> 1]

\* faulty variant: the self-transfer check is missing
RejectedBeforeLookup_no_self_check(sender, receiver, amount) ==
    IF ~ validate_username(sender) THEN "VALIDATION_ERROR"
    ELSE IF ~ validate_username(receiver) THEN "VALIDATION_ERROR"
    ELSE IF amount = TooLargeInt THEN "OverflowError"
    ELSE IF ~ amount.num THEN "VALIDATION_ERROR"
    ELSE IF amount.val <= 0 THEN "INVALID_AMOUNT"
    ELSE ""

\* faulty variant: a non-positive amount is let through
RejectedBeforeLookup_no_amount_check(sender, receiver, amount) ==
    IF ~ validate_username(sender) THEN "VALIDATION_ERROR"
    ELSE IF ~ validate_username(receiver) THEN "VALIDATION_ERROR"
    ELSE IF amount = TooLargeInt THEN "OverflowError"
    ELSE IF ~ amount.num THEN "VALIDATION_ERROR"
    ELSE IF sender = receiver THEN "INVALID_TRANSFER"
    ELSE ""

\* faulty variant: the self-transfer check made before the amount check
RejectedBeforeLookup_self_check_first(sender, receiver, amount) ==
    IF ~ validate_username(sender) THEN "VALIDATION_ERROR"
    ELSE IF ~ validate_username(receiver) THEN "VALIDATION_ERROR"
    ELSE IF sender = receiver THEN "INVALID_TRANSFER"
    ELSE IF amount = TooLargeInt THEN "OverflowError"
    ELSE IF ~ amount.num THEN "VALIDATION_ERROR"
    ELSE IF amount.val <= 0 THEN "INVALID_AMOUNT"
    ELSE ""

\* lines 362-399: the checks made before the first statement; the name of
\* an exception stands for the exception leaving transfer_money
RejectedBeforeLookup(sender, receiver, amount) ==
    IF ~ validate_username(sender) THEN "VALIDATION_ERROR"
    ELSE IF ~ validate_username(receiver) THEN "VALIDATION_ERROR"
    ELSE IF amount = TooLargeInt THEN "OverflowError"
    ELSE IF ~ amount.num THEN "VALIDATION_ERROR"
    ELSE IF amount.val <= 0 THEN "INVALID_AMOUNT"
    ELSE IF sender = receiver THEN "INVALID_TRANSFER"
    ELSE ""

\* the worker as transfer_money leaves its input checks
EnterTransfer(base, sender, receiver, amount) ==
    LET code == RejectedBeforeLookup(sender, receiver, amount) IN
    [base EXCEPT !.op = "transfer",
                 !.sender = sender, !.receiver = receiver,
                 !.amount = IF amount.num THEN amount.val ELSE 0,
                 !.amount_given = amount,
                 !.pre = Snapshot,
                 !.pc = IF code = "" THEN "get_sender" ELSE "done",
                 !.result = IF code = "" THEN NoResult ELSE Failure(code)]

\* a direct call transfer_money(sender, receiver, amount)
TransferCall(w, sender, receiver, amount) ==
    /\ CanStart(w)
    /\ worker' = [worker EXCEPT ![w] =
           EnterTransfer([Idle EXCEPT !.entry = "call"], sender, receiver, amount)]
    /\ calls' = calls + 1
    /\ UNCHANGED <<kodusers, transactions, cjwt, now, issued>>

\* line 403: sender = get_user_by_username(sender_username)
GetSender(w) ==
    LET me == worker[w] IN
    /\ me.pc = "get_sender"
    /\ worker' = [worker EXCEPT ![w] =
           IF me.sender \notin DOMAIN kodusers
           THEN [me EXCEPT !.pc = "done", !.result = Failure("SENDER_NOT_FOUND")]
           ELSE [me EXCEPT !.pc = "get_receiver",
                           !.sender_balance = kodusers[me.sender].balance]]
    /\ UNCHANGED <<kodusers, transactions, cjwt, now, issued, calls>>

\* faulty variant: the balance check is left out
InsufficientBalance_unchecked(sender_balance, amount) == FALSE

\* faulty variant: the comparison the wrong way round
InsufficientBalance_reversed(sender_balance, amount) == amount < sender_balance

\* the test of line 422 on the balance read at line 403
InsufficientBalance(sender_balance, amount) == sender_balance < amount

\* lines 412-431: receiver = get_user_by_username(receiver_username), then the
\* balance check and the new balances, all from the two rows read
GetReceiver(w) ==
    LET me == worker[w] IN
    /\ me.pc = "get_receiver"
    /\ worker' = [worker EXCEPT ![w] =
           IF me.receiver \notin DOMAIN kodusers
           THEN [me EXCEPT !.pc = "done", !.result = Failure("RECEIVER_NOT_FOUND")]
           ELSE IF InsufficientBalance(me.sender_balance, me.amount)
           THEN [me EXCEPT !.pc = "done", !.result = Failure("INSUFFICIENT_BALANCE")]
           ELSE [me EXCEPT !.pc = "update_sender",
                           !.new_sender_balance = me.sender_balance - me.amount,
                           !.new_receiver_balance =
                               kodusers[me.receiver].balance + me.amount]]
    /\ UNCHANGED <<kodusers, transactions, cjwt, now, issued, calls>>

\* faulty variant: the UPDATE without its WHERE clause
UpdateBalance_every_row(table, username, b) ==
    [u \in DOMAIN table |-> [table[u] EXCEPT !.balance = b]]

\* UPDATE kodusers SET balance = b WHERE username = u, committed on its own
UpdateBalance(table, username, b) ==
    [u \in DOMAIN table |->
        IF u = username THEN [table[u] EXCEPT !.balance = b] ELSE table[u]]

\* line 439
UpdateSender(w) ==
    LET me == worker[w] IN
    /\ me.pc = "update_sender"
    /\ kodusers' = UpdateBalance(kodusers, me.sender, me.new_sender_balance)
    /\ worker' = [worker EXCEPT ![w].pc = "update_receiver"]
    /\ UNCHANGED <<transactions, cjwt, now, issued, calls>>

\* faulty variant: the receiver is never credited
UpdateReceiver_no_credit(w) ==
    /\ worker[w].pc = "update_receiver"
    /\ worker' = [worker EXCEPT ![w].pc = "insert_transaction"]
    /\ UNCHANGED <<kodusers, transactions, cjwt, now, issued, calls>>

\* line 447
UpdateReceiver(w) ==
    LET me == worker[w] IN
    /\ me.pc = "update_receiver"
    /\ kodusers' = UpdateBalance(kodusers, me.receiver, me.new_receiver_balance)
    /\ worker' = [worker EXCEPT ![w].pc = "insert_transaction"]
    /\ UNCHANGED <<transactions, cjwt, now, issued, calls>>

\* the value column created_at takes when the INSERT names none: the clock
\* of the moment, in whole ticks
CurrentTimestamp == now

TransactionRow(id, sender, receiver, amount, t) ==
    [id |-> id, sender_username |-> sender, receiver_username |-> receiver,
     amount |-> amount, transaction_type |-> "transfer", status |-> "completed",
     created_at |-> t]

\* faulty variant: success is returned without the transfer record
InsertTransaction_no_record(w) ==
    LET me == worker[w] IN
    /\ me.pc = "insert_transaction"
    /\ worker' = [worker EXCEPT ![w].pc = "done",
                                ![w].result =
                                    [NoResult EXCEPT
                                     !.success = TRUE,
                                     !.sender_balance = me.new_sender_balance,
                                     !.receiver_balance = me.new_receiver_balance]]
    /\ UNCHANGED <<kodusers, transactions, cjwt, now, issued, calls>>

\* faulty variant: the new record takes the place of the table
InsertTransaction_replaces_table(w) ==
    LET me == worker[w] IN
    /\ me.pc = "insert_transaction"
    /\ transactions' = <<TransactionRow(1, me.sender, me.receiver,
                                        me.amount, CurrentTimestamp)>>
    /\ worker' = [worker EXCEPT ![w].pc = "done",
                                ![w].result =
                                    [NoResult EXCEPT
                                     !.success = TRUE,
                                     !.sender_balance = me.new_sender_balance,
                                     !.receiver_balance = me.new_receiver_balance]]
    /\ UNCHANGED <<kodusers, cjwt, now, issued, calls>>

\* lines 449-463: the INSERT, then the success result
InsertTransaction(w) ==
    LET me == worker[w] IN
    /\ me.pc = "insert_transaction"
    /\ transactions' = Append(transactions,
           TransactionRow(Len(transactions) + 1, me.sender, me.receiver,
                          me.amount, CurrentTimestamp))
    /\ worker' = [worker EXCEPT ![w].pc = "done",
                                ![w].result =
                                    [NoResult EXCEPT
                                     !.success = TRUE,
                                     !.sender_balance = me.new_sender_balance,
                                     !.receiver_balance = me.new_receiver_balance]]
    /\ UNCHANGED <<kodusers, cjwt, now, issued, calls>>

\* faulty variant: a failed SELECT is taken for "no such row"
TransferFault_read_error_as_not_found(w) ==
    LET me == worker[w] IN
    /\ me.pc \in TransferSteps
    /\ worker' = [worker EXCEPT ![w].pc = "done",
                                ![w].faulted_at = me.pc,
                                ![w].result =
                                    IF me.pc = "get_sender"
                                    THEN Failure("SENDER_NOT_FOUND")
                                    ELSE IF me.pc = "get_receiver"
                                    THEN Failure("RECEIVER_NOT_FOUND")
                                    ELSE Failure("DATABASE_ERROR")]
    /\ UNCHANGED <<kodusers, transactions, cjwt, now, issued, calls>>

\* db.py 228-233 with user_service.py 465-471: the statement the worker is
\* about to run raises mysql Error; execute_query rolls that one statement
\* back and transfer_money returns DATABASE_ERROR
TransferFault(w) ==
    LET me == worker[w] IN
    /\ me.pc \in TransferSteps
    /\ worker' = [worker EXCEPT ![w].pc = "done",
                                ![w].faulted_at = me.pc,
                                ![w].result = Failure("DATABASE_ERROR")]
    /\ UNCHANGED <<kodusers, transactions, cjwt, now, issued, calls>>

\* the clock advances
Tick ==
    /\ now < MaxTime
    /\ now' = now + 1
    /\ UNCHANGED <<kodusers, transactions, cjwt, worker, issued, calls>>

----------------------------------------------------------------------------
(* user_service.py: get_transaction_history *)

\* WHERE sender_username = %s OR receiver_username = %s: the rows, by id
Matching(username) ==
    {i \in 1..Len(transactions) :
        \/ transactions[i].sender_username = username
        \/ transactions[i].receiver_username = username}

\* ORDER BY created_at DESC: every arrangement of the matching rows in which
\* created_at never increases; rows with equal created_at come in whatever
\* order the server produces
HistoryOrders(username) ==
    LET rows == Matching(username)
        n == Cardinality(rows)
    IN {o \in [1..n -> rows] :
           /\ \A i, j \in 1..n : i # j => o[i] # o[j]
           /\ \A i, j \in 1..n :
                  i < j => transactions[o[i]].created_at
                               >= transactions[o[j]].created_at}

\* faulty variant: the CASE compares the receiver
HistoryRow_direction_inverted(row, username) ==
    [id |-> row.id, sender_username |-> row.sender_username,
     receiver_username |-> row.receiver_username, amount |-> row.amount,
     transaction_type |-> row.transaction_type, status |-> row.status,
     created_at |-> row.created_at,
     direction |-> IF row.receiver_username = username THEN "sent" ELSE "received"]

\* lines 509-520: the selected columns and the direction CASE
HistoryRow(row, username) ==
    [id |-> row.id, sender_username |-> row.sender_username,
     receiver_username |-> row.receiver_username, amount |-> row.amount,
     transaction_type |-> row.transaction_type, status |-> row.status,
     created_at |-> row.created_at,
     direction |-> IF row.sender_username = username THEN "sent" ELSE "received"]

\* LIMIT %s
Limited(order, limit) ==
    SubSeq(order, 1, IF limit < Len(order) THEN limit ELSE Len(order))

\* get_transaction_history(username, limit): ValueError for a malformed
\* username (502-503); mysql Error, re-raised, for a LIMIT below zero
\* (534-536); else the rows in one of the orders the query allows
HistoryCall(w, username, limit, order) ==
    LET base == [Idle EXCEPT !.entry = "call", !.op = "history", !.pc = "done",
                             !.username = username, !.limit = limit,
                             !.pre = Snapshot]
    IN
    /\ CanStart(w)
    /\ IF ~ validate_username(username)
       THEN /\ order = <<>>
            /\ worker' = [worker EXCEPT ![w] =
                   [base EXCEPT !.result = Failure("ValueError")]]
       ELSE IF limit < 0
       THEN /\ order = <<>>
            /\ worker' = [worker EXCEPT ![w] =
                   [base EXCEPT !.result = Failure("Error")]]
       ELSE /\ order \in HistoryOrders(username)
            /\ worker' = [worker EXCEPT ![w] =
                   [base EXCEPT
                     !.result = [NoResult EXCEPT !.success = TRUE],
                     !.history = [i \in 1..Len(Limited(order, limit)) |->
                                     HistoryRow(transactions[order[i]], username)]]]
    /\ calls' = calls + 1
    /\ UNCHANGED <<kodusers, transactions, cjwt, now, issued>>

----------------------------------------------------------------------------
(* user_service.py: get_balance called on its own *)

\* lines 321-332: ValueError for a malformed name; else the balance of the
\* row, or None (no value) when there is no such row
BalanceCall(w, username) ==
    LET base == [Idle EXCEPT !.entry = "call", !.op = "balance", !.pc = "done",
                             !.username = username, !.pre = Snapshot]
    IN
    /\ CanStart(w)
    /\ worker' = [worker EXCEPT ![w] =
           IF ~ validate_username(username)
           THEN [base EXCEPT !.result = Failure("ValueError")]
           ELSE [base EXCEPT
                   !.result = [NoResult EXCEPT !.success = TRUE],
                   !.balance = IF username \in DOMAIN kodusers
                               THEN <<get_balance(username)>> ELSE <<>>]]
    /\ calls' = calls + 1
    /\ UNCHANGED <<kodusers, transactions, cjwt, now, issued>>

----------------------------------------------------------------------------
(* app.py: POST /api/transfer *)

NoAmount == [num |-> FALSE, val |-> -1]     \* the body has no "amount"

\* faulty variant: a "sender_username" in the body overrides the token's subject
RequestSender_from_body(auth, body) ==
    IF body.sender_username # NoValue THEN body.sender_username ELSE auth.username

\* line 315: sender_username = verification_result['username']
RequestSender(auth, body) == auth.username

\* lines 301-344: the sender is the verified token's subject; the body gives
\* receiver_username and amount (and whatever else the client puts in it,
\* here a "sender_username" the handler never reads)
TransferRequest(w, token, body, d, at_exp) ==
    LET auth == verify_token_from_request(token, now, now + d, at_exp)
        base == [Idle EXCEPT !.entry = "api", !.op = "transfer", !.token = token,
                             !.auth = auth, !.verified_at = now, !.decoded_at = now + d,
                             !.stored = token_exists(token),
                             !.body_sender = body.sender_username,
                             !.pre = Snapshot]
    IN
    /\ CanStart(w)
    /\ now + d <= MaxTime
    /\ now' = now + d
    /\ worker' = [worker EXCEPT ![w] =
           IF ~ auth.valid
           THEN [base EXCEPT !.pc = "done", !.result = Failure(auth.error_code)]
           ELSE IF body.receiver_username = NoValue \/ body.amount = NoAmount
           THEN [base EXCEPT !.pc = "done", !.result = Failure("VALIDATION_ERROR")]
           ELSE EnterTransfer(base, RequestSender(auth, body), body.receiver_username,
                              body.amount)]
    /\ calls' = calls + 1
    /\ UNCHANGED <<kodusers, transactions, cjwt, issued>>

\* a call verify_token_from_request(token) on its own
VerifyCall(w, token, d, at_exp) ==
    /\ CanStart(w)
    /\ now + d <= MaxTime
    /\ now' = now + d
    /\ worker' = [worker EXCEPT ![w] =
           [Idle EXCEPT !.pc = "done", !.op = "verify", !.entry = "call",
                        !.token = token, !.verified_at = now, !.decoded_at = now + d,
                        !.stored = token_exists(token),
                        !.auth = verify_token_from_request(token, now, now + d, at_exp)]]
    /\ calls' = calls + 1
    /\ UNCHANGED <<kodusers, transactions, cjwt, issued>>

----------------------------------------------------------------------------
(* auth_service.py: register_user, with user_service.py: create_user *)

\* auth_service.py 62-105: presence, then formats
RegistrationInputOK(uid, uname, password, email, phone) ==
    /\ uid # "" /\ uname # NoValue /\ password # "" /\ email # NoValue
    /\ phone # NoValue
    /\ validate_uid(uid) /\ validate_username(uname)
    /\ validate_password(password) /\ validate_email(email)
    /\ validate_phone(phone)

RegisterCall(w, uid, uname, password, email, phone) ==
    LET base == [Idle EXCEPT !.entry = "call", !.op = "register", !.uid = uid,
                             !.username = uname, !.password = password,
                             !.email = email, !.phone = phone, !.pre = Snapshot]
    IN
    /\ CanStart(w)
    /\ worker' = [worker EXCEPT ![w] =
           IF RegistrationInputOK(uid, uname, password, email, phone)
           THEN [base EXCEPT !.pc = "user_exists"]
           ELSE [base EXCEPT !.pc = "done", !.result = Failure("VALIDATION_ERROR")]]
    /\ calls' = calls + 1
    /\ UNCHANGED <<kodusers, transactions, cjwt, now, issued>>

\* user_service.py 180-192: SELECT COUNT(*) ... WHERE username = %s OR email = %s
user_exists(username, email) ==
    \E u \in DOMAIN kodusers : u = username \/ kodusers[u].email = email

\* user_service.py 235-239
UserExists(w) ==
    LET me == worker[w] IN
    /\ me.pc = "user_exists"
    /\ worker' = [worker EXCEPT ![w] =
           IF user_exists(me.username, me.email)
           THEN [me EXCEPT !.pc = "done", !.result = Failure("DUPLICATE_USER")]
           ELSE [me EXCEPT !.pc = "insert_user", !.passed_check = TRUE]]
    /\ UNCHANGED <<kodusers, transactions, cjwt, now, issued, calls>>

\* the keys of table kodusers (uid, username and email are each unique): an
\* INSERT that repeats one raises IntegrityError
IntegrityError(uid, username, email) ==
    \E u \in DOMAIN kodusers :
        u = username \/ kodusers[u].email = email \/ kodusers[u].uid = uid

\* faulty variant: IntegrityError is not told apart from other mysql errors
InsertUser_integrity_error_reraised(w) ==
    LET me == worker[w] IN
    /\ me.pc = "insert_user"
    /\ IF IntegrityError(me.uid, me.username, me.email)
       THEN /\ worker' = [worker EXCEPT ![w].pc = "done",
                                        ![w].result = Failure("INTERNAL_ERROR")]
            /\ UNCHANGED kodusers
       ELSE /\ kodusers' = (me.username :>
                               UserRow(me.uid, me.email, me.password,
                                       OPENING_BALANCE, me.phone)) @@ kodusers
            /\ worker' = [worker EXCEPT ![w].pc = "done",
                                        ![w].result = [NoResult EXCEPT !.success = TRUE]]
    /\ UNCHANGED <<transactions, cjwt, now, issued, calls>>

\* user_service.py 242-264 and auth_service.py 118-131: the INSERT with the
\* balance register_user passes
InsertUser(w) ==
    LET me == worker[w] IN
    /\ me.pc = "insert_user"
    /\ IF IntegrityError(me.uid, me.username, me.email)
       THEN /\ worker' = [worker EXCEPT ![w].pc = "done",
                                        ![w].result = Failure("DUPLICATE_USER")]
            /\ UNCHANGED kodusers
       ELSE /\ kodusers' = (me.username :>
                               UserRow(me.uid, me.email, me.password,
                                       OPENING_BALANCE, me.phone)) @@ kodusers
            /\ worker' = [worker EXCEPT ![w].pc = "done",
                                        ![w].result = [NoResult EXCEPT !.success = TRUE]]
    /\ UNCHANGED <<transactions, cjwt, now, issued, calls>>

RegisterSteps == {"user_exists", "insert_user"}

\* a statement of create_user raises mysql Error: create_user re-raises it
\* (265-267) and register_user answers INTERNAL_ERROR (140-146)
RegisterFault(w) ==
    LET me == worker[w] IN
    /\ me.pc \in RegisterSteps
    /\ worker' = [worker EXCEPT ![w].pc = "done", ![w].faulted_at = me.pc,
                                ![w].result = Failure("INTERNAL_ERROR")]
    /\ UNCHANGED <<kodusers, transactions, cjwt, now, issued, calls>>

----------------------------------------------------------------------------
(* jwt_service.py: generate_token called on its own *)

\* lines 47-48: ValueError for an empty username; else the token signed at
\* the clock's value
GenerateCall(w, username, role) ==
    LET base == [Idle EXCEPT !.entry = "call", !.op = "generate", !.pc = "done",
                             !.username = username]
    IN
    /\ CanStart(w)
    /\ worker' = [worker EXCEPT ![w] =
           IF username = NoValue
           THEN [base EXCEPT !.result = Failure("ValueError")]
           ELSE [base EXCEPT !.jwt = generate_token(username, role, now),
                             !.result = [NoResult EXCEPT !.success = TRUE]]]
    /\ calls' = calls + 1
    /\ UNCHANGED <<kodusers, transactions, cjwt, now, issued>>

----------------------------------------------------------------------------
(* auth_service.py: login, with jwt_service.py: store_token *)

\* a failure result of login, with its message
LoginFailure(code, msg) == [Failure(code) EXCEPT !.message = msg]

\* lines 173-183: presence, then get_user_by_username raises ValueError on a
\* malformed username (user_service.py 286-287), answered at 233-239
LoginCall(w, username, password) ==
    LET base == [Idle EXCEPT !.entry = "call", !.op = "login",
                             !.username = username, !.password = password,
                             !.pre = Snapshot]
    IN
    /\ CanStart(w)
    /\ worker' = [worker EXCEPT ![w] =
           IF username = NoValue \/ password = ""
           THEN [base EXCEPT !.pc = "done",
                             !.result = LoginFailure("VALIDATION_ERROR",
                                            "Username and password are required")]
           ELSE IF ~ validate_username(username)
           THEN [base EXCEPT !.pc = "done",
                             !.result = LoginFailure("VALIDATION_ERROR",
                                            "Invalid username format")]
           ELSE [base EXCEPT !.pc = "get_user"]]
    /\ calls' = calls + 1
    /\ UNCHANGED <<kodusers, transactions, cjwt, now, issued>>

\* faulty variant: an unknown username gets a result of its own
GetUser_names_unknown_user(w, d) ==
    LET me == worker[w] IN
    /\ me.pc = "get_user"
    /\ now + d <= MaxTime
    /\ now' = now + d
    /\ worker' = [worker EXCEPT ![w] =
           IF me.username \notin DOMAIN kodusers
           THEN [me EXCEPT !.pc = "done",
                           !.result = LoginFailure("USER_NOT_FOUND", "User not found")]
           ELSE IF ~ verify_password(me.password, kodusers[me.username].password)
           THEN [me EXCEPT !.pc = "done", !.result = LoginFailure("INVALID_CREDENTIALS", "Invalid credentials")]
           ELSE [me EXCEPT !.pc = "store_token",
                           !.uid = kodusers[me.username].uid,
                           !.jwt = generate_token(me.username, "customer", now),
                           !.expiry = now + d + TokenTTL]]
    /\ UNCHANGED <<kodusers, transactions, cjwt, issued, calls>>

\* lines 183-208: the SELECT, the password check, generate_token at the
\* clock's value, then expiry = utcnow() + JWT_EXPIRY_HOURS read d ticks later
GetUser(w, d) ==
    LET me == worker[w] IN
    /\ me.pc = "get_user"
    /\ now + d <= MaxTime
    /\ now' = now + d
    /\ worker' = [worker EXCEPT ![w] =
           IF me.username \notin DOMAIN kodusers
           THEN [me EXCEPT !.pc = "done", !.result = LoginFailure("INVALID_CREDENTIALS", "Invalid credentials")]
           ELSE IF ~ verify_password(me.password, kodusers[me.username].password)
           THEN [me EXCEPT !.pc = "done", !.result = LoginFailure("INVALID_CREDENTIALS", "Invalid credentials")]
           ELSE [me EXCEPT !.pc = "store_token",
                           !.uid = kodusers[me.username].uid,
                           !.jwt = generate_token(me.username, "customer", now),
                           !.expiry = now + d + TokenTTL]]
    /\ UNCHANGED <<kodusers, transactions, cjwt, issued, calls>>

\* faulty variant: the token is returned without having been stored
StoreToken_not_persisted(w) ==
    LET me == worker[w] IN
    /\ me.pc = "store_token"
    /\ issued' = issued \cup {me.jwt}
    /\ worker' = [worker EXCEPT ![w].pc = "done",
                                ![w].result = [NoResult EXCEPT !.success = TRUE,
                                                               !.message = "Login successful",
                                                               !.token = me.jwt,
                                                               !.uid = me.uid]]
    /\ UNCHANGED <<kodusers, transactions, cjwt, now, calls>>

\* jwt_service.py 170-182 and auth_service.py 217-231: INSERT INTO cjwt, then
\* the token goes to the client
StoreToken(w) ==
    LET me == worker[w] IN
    /\ me.pc = "store_token"
    /\ cjwt' = Append(cjwt, [token |-> me.jwt, uid |-> me.uid, expiry |-> me.expiry])
    /\ issued' = issued \cup {me.jwt}
    /\ worker' = [worker EXCEPT ![w].pc = "done",
                                ![w].result = [NoResult EXCEPT !.success = TRUE,
                                                               !.message = "Login successful",
                                                               !.token = me.jwt,
                                                               !.uid = me.uid]]
    /\ UNCHANGED <<kodusers, transactions, now, calls>>

LoginSteps == {"get_user", "store_token"}

\* a statement of login raises mysql Error: re-raised by the callee, answered
\* INTERNAL_ERROR by login (240-246)
LoginFault(w) ==
    LET me == worker[w] IN
    /\ me.pc \in LoginSteps
    /\ worker' = [worker EXCEPT ![w].pc = "done", ![w].faulted_at = me.pc,
                                ![w].result =
                                    LoginFailure("INTERNAL_ERROR",
                                        "Internal server error during login")]
    /\ UNCHANGED <<kodusers, transactions, cjwt, now, issued, calls>>

----------------------------------------------------------------------------
(* Specifications *)

BadName == <<"a", "!">>
Num(v) == [num |-> TRUE, val |-> v]
NotANumber == [num |-> FALSE, val |-> 0]

\* transfer_money inputs for calls made one after another: the accounts, a
\* name each check can reject, names on the edges of validate_username
TransferInputs ==
    ({UA, UB, UC, BadName} \X {UA, UB, UC}
        \X {Num(500), Num(600000), Num(2 * OPENING_BALANCE)})
    \cup ({UA} \X {UB, BadName} \X {NotANumber, Num(-500), Num(0)})
    \cup ({NoValue, LongName, <<"a", "\n">>} \X {UB} \X {Num(500)})
    \cup {<<UA, UA, Num(0)>>, <<UC, U7, Num(500)>>}

RegisterInputs ==
    ({"u3", "u1"} \X {UC, UA} \X {"secret3"} \X {Email("c"), Email("a")}
        \X {Phone("3")})
    \cup {<<"", UC, "secret3", Email("c"), Phone("3")>>,
          <<"u3", BadName, "secret3", Email("c"), Phone("3")>>,
          <<"u3", UC, "short", Email("c"), Phone("3")>>,
          <<"u3", UC, "secret3", <<"c", "@", "x">>, Phone("3")>>,
          <<"u3", UC, "secret3", Email("c"), <<"1", "2", "3">>>>}

\* inputs of concurrent calls
ConcurrentTransferInputs ==
    {<<UA, UB, Num(600000)>>, <<UB, UA, Num(600000)>>, <<UA, UC, Num(600000)>>,
     <<UC, UA, Num(600000)>>, <<UA, UB, Num(0)>>}

ConcurrentRegisterInputs ==
    {<<"u3", UC, "secret3", Email("c"), Phone("3")>>,
     <<"u3", UC, "secret3", Email("a"), Phone("3")>>}

\* registrations that collide with each other or with an account: the same
\* username, the same email, the same uid, the email of account a
CollidingRegisterInputs ==
    {<<"u3", UC, "secret3", Email("c"), Phone("3")>>,
     <<"u4", UC, "secret3", Email("7"), Phone("3")>>,
     <<"u4", U7, "secret3", Email("c"), Phone("3")>>,
     <<"u3", U7, "secret3", Email("7"), Phone("3")>>,
     <<"u4", U7, "secret3", Email("a"), Phone("3")>>}

\* transfers and history requests among accounts a, b and (once registered) c
HistoryTransferInputs ==
    {<<UA, UB, Num(500)>>, <<UB, UA, Num(500)>>, <<UB, UC, Num(500)>>}
HistoryInputs == {UA, UB, UC, BadName} \X {-1, 0, 1, 2}

\* every sequence of row ids the query could return for some user
Orders == UNION {HistoryOrders(u) : u \in {UA, UB, UC}} \cup {<<>>}

Bodies ==
    {[sender_username |-> in[1], receiver_username |-> in[2], amount |-> in[3]] :
        in \in {<<NoValue, UB, Num(600000)>>, <<UB, UB, Num(600000)>>,
                <<UB, UA, Num(600000)>>, <<NoValue, NoValue, NoAmount>>}}

LoginInputs ==
    {<<UA, "secret1">>, <<UA, "secret2">>, <<UC, "secret1">>,
     <<NoValue, "secret1">>, <<UA, "">>, <<BadName, "secret1">>}

Ticks == {0, 1}

\* arguments of verify_token_from_request called on its own: nothing, junk,
\* and tokens with and without a subject, signed with the server's key or
\* another, as issued at time 0, also with the last character altered
SignedTokens ==
    {jwt_encode([sub |-> s, role |-> "customer", iat |-> 0, exp |-> TokenTTL], k) :
        s \in {UA, NoValue}, k \in {SERVER_KEY, OTHER_KEY}}

\* the token a login of account a at time 0 gets, presented at any moment
\* (before that login stores it, after it, or when its store_token failed),
\* and the same payload signed with another key
LedgerProbeTokens ==
    {generate_token(UA, "customer", 0),
     jwt_encode(generate_token(UA, "customer", 0).payload, OTHER_KEY)}

VerifierInputs ==
    {NoToken, Garbage} \cup SignedTokens
        \cup UNION {AlteredLast(tok) : tok \in SignedTokens}

\* what the installed PyJWT may answer: both answers when the check falls on
\* the token's exp, where the versions differ, else one (it plays no part)
AtExp(tok, d) ==
    IF tok.kind = "jwt" /\ tok.payload.exp \in {now, now + d}
    THEN BOOLEAN ELSE {TRUE}

\* calls into the transfer engine and the credential store
StartLedger(w, transfers, registrations) ==
    \/ \E in \in transfers : TransferCall(w, in[1], in[2], in[3])
    \/ \E in \in registrations :
           RegisterCall(w, in[1], in[2], in[3], in[4], in[5])

\* calls that issue, present or check a session token
StartSession(w) ==
    \/ \E tok \in Presentable, body \in Bodies, d \in Ticks :
           \E at_exp \in AtExp(tok, d) : TransferRequest(w, tok, body, d, at_exp)
    \/ \E tok \in Presentable, d \in Ticks :
           \E at_exp \in AtExp(tok, d) : VerifyCall(w, tok, d, at_exp)
    \/ \E in \in LoginInputs : LoginCall(w, in[1], in[2])

TransferStep(w) ==
    \/ GetSender(w)
    \/ GetReceiver(w)
    \/ UpdateSender(w)
    \/ UpdateReceiver(w)
    \/ InsertTransaction(w)

RegisterStep(w) ==
    \/ UserExists(w)
    \/ InsertUser(w)

LoginStep(w) ==
    \/ \E d \in Ticks : GetUser(w, d)
    \/ StoreToken(w)

\* the program: concurrent requests of every kind, storage faults, a running
\* clock
Next ==
    \/ \E w \in Workers :
           \/ StartLedger(w, ConcurrentTransferInputs, ConcurrentRegisterInputs)
           \/ StartSession(w)
           \/ TransferStep(w) \/ RegisterStep(w) \/ LoginStep(w)
           \/ TransferFault(w) \/ RegisterFault(w) \/ LoginFault(w)
    \/ Tick

Spec == Init /\ [][Next]_vars

\* the ledger with one call after another and no storage fault
NextSeq ==
    \/ StartLedger(1, TransferInputs, RegisterInputs)
    \/ TransferStep(1) \/ RegisterStep(1)

SpecSeq == Init /\ [][NextSeq]_vars

\* the ledger under concurrent transfer_money and register_user calls, with
\* storage faults
NextLedger ==
    \E w \in Workers :
        \/ StartLedger(w, ConcurrentTransferInputs, ConcurrentRegisterInputs)
        \/ TransferStep(w) \/ RegisterStep(w)
        \/ TransferFault(w) \/ RegisterFault(w)

SpecLedger == Init /\ [][NextLedger]_vars

\* sessions: logins, token checks and transfers through the endpoint, one
\* request after another, with storage faults and a running clock
NextSession ==
    \/ StartSession(1)
    \/ TransferStep(1) \/ LoginStep(1)
    \/ TransferFault(1) \/ LoginFault(1)
    \/ Tick

SpecSession == Init /\ [][NextSession]_vars

\* transfers made one after another on a running clock, with history reads
NextHistory ==
    \/ StartLedger(1, HistoryTransferInputs,
                   {<<"u3", UC, "secret3", Email("c"), Phone("3")>>})
    \/ TransferStep(1) \/ RegisterStep(1)
    \/ \E in \in HistoryInputs, order \in Orders :
           HistoryCall(1, in[1], in[2], order)
    \/ Tick

SpecHistory == Init /\ [][NextHistory]_vars

\* generate_token as a function of subject, role and the clock
GenerateInputs == {UA, UB, U7, NoValue} \X {"customer", "admin"}

NextIssue ==
    \/ \E in \in GenerateInputs : GenerateCall(1, in[1], in[2])
    \/ Tick

SpecIssue == Init /\ [][NextIssue]_vars

\* concurrent register_user calls, with storage faults
NextRegister ==
    \E w \in Workers :
        \/ \E in \in CollidingRegisterInputs :
               RegisterCall(w, in[1], in[2], in[3], in[4], in[5])
        \/ RegisterStep(w)
        \/ RegisterFault(w)

SpecRegister == Init /\ [][NextRegister]_vars

\* concurrent login calls, with storage faults
NextLogin ==
    \E w \in Workers :
        \/ \E in \in LoginInputs : LoginCall(w, in[1], in[2])
        \/ LoginStep(w)
        \/ LoginFault(w)

SpecLogin == Init /\ [][NextLogin]_vars

\* token checks running beside logins, registrations and transfers
NextTokenLedger ==
    \/ \E w \in Workers :
           \/ \E tok \in LedgerProbeTokens, d \in Ticks :
                  \E at_exp \in AtExp(tok, d) : VerifyCall(w, tok, d, at_exp)
           \/ LoginCall(w, UA, "secret1")
           \/ LoginStep(w) \/ LoginFault(w)
           \/ StartLedger(w, {<<UA, UB, Num(600000)>>},
                          {<<"u3", UC, "secret3", Email("c"), Phone("3")>>})
           \/ TransferStep(w) \/ RegisterStep(w)
    \/ Tick

SpecTokenLedger == Init /\ [][NextTokenLedger]_vars

\* concurrent calls of the operations that answer with a result record,
\* with storage faults
CallTransferInputs ==
    {<<UA, UB, Num(600000)>>, <<UB, UA, Num(600000)>>, <<UA, UB, NotANumber>>,
     <<UA, UB, TooLargeInt>>}

CallRegisterInputs ==
    {<<"u3", UC, "secret3", Email("c"), Phone("3")>>,
     <<"u3", UC, "short", Email("c"), Phone("3")>>}

CallLoginInputs == {<<UA, "secret1">>, <<UA, "secret2">>, <<BadName, "secret1">>}

NextCalls ==
    \E w \in Workers :
        \/ StartLedger(w, CallTransferInputs, CallRegisterInputs)
        \/ \E in \in CallLoginInputs : LoginCall(w, in[1], in[2])
        \/ \E tok \in {NoToken, Garbage} \cup LedgerProbeTokens :
               \E at_exp \in AtExp(tok, 0) : VerifyCall(w, tok, 0, at_exp)
        \/ TransferStep(w) \/ RegisterStep(w) \/ LoginStep(w)
        \/ TransferFault(w) \/ RegisterFault(w) \/ LoginFault(w)

SpecCalls == Init /\ [][NextCalls]_vars

\* calls of every operation one after another, with storage faults
JournalTransferInputs ==
    {<<UA, UB, Num(600000)>>, <<UB, UA, Num(600000)>>, <<UA, UC, Num(600000)>>,
     <<UA, UB, Num(0)>>}

JournalReadInputs == {UA, UC, BadName}

NextJournal ==
    \/ StartLedger(1, JournalTransferInputs,
                   {<<"u3", UC, "secret3", Email("c"), Phone("3")>>})
    \/ LoginCall(1, UA, "secret1")
    \/ \E tok \in LedgerProbeTokens :
           \E at_exp \in AtExp(tok, 0) : VerifyCall(1, tok, 0, at_exp)
    \/ \E u \in JournalReadInputs : BalanceCall(1, u)
    \/ \E u \in JournalReadInputs, order \in Orders :
           HistoryCall(1, u, 1, order)
    \/ TransferStep(1) \/ RegisterStep(1) \/ LoginStep(1)
    \/ TransferFault(1) \/ RegisterFault(1) \/ LoginFault(1)

SpecJournal == Init /\ [][NextJournal]_vars

\* verify_token_from_request as a function of the presented value and the
\* clock
NextVerify ==
    \/ \E tok \in VerifierInputs, d \in Ticks :
           \E at_exp \in AtExp(tok, d) : VerifyCall(1, tok, d, at_exp)
    \/ Tick

SpecVerify == Init /\ [][NextVerify]_vars

----------------------------------------------------------------------------
(* Properties *)

RECURSIVE SumOver(_, _)
SumOver(f, S) ==
    IF S = {} THEN 0
    ELSE LET x == CHOOSE y \in S : TRUE IN f[x] + SumOver(f, S \ {x})

Total(balances) == SumOver(balances, DOMAIN balances)

Finished(w) == worker[w].pc = "done"
FinishedTransfer(w) == Finished(w) /\ worker[w].op = "transfer"

StoreAsBefore(w) ==
    /\ Balances = worker[w].pre.balances
    /\ transactions = worker[w].pre.transactions

\* the other worker has taken no call at all
Alone(w) == \A v \in Workers \ {w} : worker[v].pc = "idle"

\* C1: a transfer_money call in which a statement after the sender's debit
\* fails (the receiver's UPDATE or the INSERT of the record) ends with both
\* balances and the transfer table as they were before the call.
C1_AtomicUnderFault ==
    \A w \in Workers :
        (/\ FinishedTransfer(w)
         /\ worker[w].faulted_at \in {"update_receiver", "insert_transaction"}
         /\ Alone(w))
        => StoreAsBefore(w)

\* transfer_money run alone on balances bal: the balances it leaves
SerialTransfer(bal, t) ==
    IF /\ t.sender \in DOMAIN bal /\ t.receiver \in DOMAIN bal
       /\ t.sender # t.receiver /\ t.amount > 0
       /\ bal[t.sender] >= t.amount
    THEN [u \in DOMAIN bal |->
             IF u = t.sender THEN bal[u] - t.amount
             ELSE IF u = t.receiver THEN bal[u] + t.amount
             ELSE bal[u]]
    ELSE bal

ShareAccount(t1, t2) ==
    {t1.sender, t1.receiver} \cap {t2.sender, t2.receiver} # {}

\* C2: two transfer_money calls that overlap and share an account leave the
\* balances that one of the two serial orders would leave.
C2_NoLostUpdate ==
    (/\ calls = 2
     /\ FinishedTransfer(1) /\ FinishedTransfer(2)
     /\ worker[1].faulted_at = "" /\ worker[2].faulted_at = ""
     /\ ShareAccount(worker[1], worker[2]))
    => LET base == worker[1].pre.balances IN
       Balances \in
           {SerialTransfer(SerialTransfer(base, worker[1]), worker[2]),
            SerialTransfer(SerialTransfer(base, worker[2]), worker[1])}

\* C3: with calls made one after another and no storage fault, every
\* transfer_money call leaves the sum of all balances as it found it: a
\* committed transfer takes from the sender exactly what it gives the
\* receiver, a rejected one changes no balance.
C3_BalanceConservation ==
    FinishedTransfer(1) =>
        LET me == worker[1] IN
        /\ Total(Balances) = Total(me.pre.balances)
        /\ me.result.success =>
               me.pre.balances[me.sender] - Balances[me.sender]
                   = Balances[me.receiver] - me.pre.balances[me.receiver]
        /\ ~ me.result.success => Balances = me.pre.balances

C3_Witness ==
    /\ FinishedTransfer(1) /\ worker[1].result.success
    /\ Len(transactions) >= 2
    /\ Balances # worker[1].pre.balances

\* C4: every stored balance is >= 0 in every state, under every interleaving
\* of register_user and transfer_money calls (storage faults included).
C4_NonNegative ==
    \A u \in DOMAIN kodusers : kodusers[u].balance >= 0

\* two overlapping transfers from one sender, both past the balance check,
\* whose amounts together exceed what the sender had
C4_Witness ==
    /\ worker[1].op = "transfer" /\ worker[2].op = "transfer"
    /\ worker[1].sender = worker[2].sender
    /\ worker[1].sender \in DOMAIN worker[1].pre.balances
    /\ worker[1].pc = "done" /\ worker[1].result.success
    /\ worker[2].pc = "done" /\ worker[2].result.success
    /\ worker[1].amount + worker[2].amount > worker[1].pre.balances[worker[1].sender]
    /\ UC \in DOMAIN kodusers

C8_SuccessfulTransferEffect ==
    LET me == worker[1] IN
    (FinishedTransfer(1) /\ me.result.success)
    => /\ Balances =
              [u \in DOMAIN me.pre.balances |->
                  IF u = me.sender THEN me.pre.balances[u] - me.amount
                  ELSE IF u = me.receiver THEN me.pre.balances[u] + me.amount
                  ELSE me.pre.balances[u]]
       /\ me.result.sender_balance = kodusers[me.sender].balance
       /\ me.result.receiver_balance = kodusers[me.receiver].balance
       /\ Len(transactions) = Len(me.pre.transactions) + 1
       /\ SubSeq(transactions, 1, Len(me.pre.transactions)) = me.pre.transactions
       /\ LET row == transactions[Len(transactions)] IN
          /\ row.sender_username = me.sender
          /\ row.receiver_username = me.receiver
          /\ row.amount = me.amount
          /\ row.transaction_type = "transfer"
          /\ row.status = "completed"

\* the spec's example: 1000002 and 1000002, a = 500
C8_Witness ==
    /\ FinishedTransfer(1) /\ worker[1].result.success
    /\ worker[1].amount = 500
    /\ worker[1].pre.balances[worker[1].sender] = 1000002
    /\ worker[1].pre.balances[worker[1].receiver] = 1000002
    /\ kodusers[worker[1].sender].balance = 999502
    /\ kodusers[worker[1].receiver].balance = 1000502
    /\ Len(transactions) = 1

\* the server signed this very payload: the token is an issued one, up to
\* the text of its signature
ServerSigned(token) ==
    /\ token.kind = "jwt"
    /\ \E tok \in issued : tok.payload = token.payload /\ tok.body = token.body

\* C5: a transfer made through POST /api/transfer writes balances and its
\* record only for a request whose token verify_token_from_request accepted,
\* with the token's subject as sender whatever the body says; a request
\* whose token is missing, forged or expired is rejected and changes nothing.
C5_TokenGatedLedger ==
    \A w \in Workers :
        LET me == worker[w] IN
        me.entry = "api" =>
            /\ (me.pc \in TransferSteps \/ (me.pc = "done" /\ ~ StoreAsBefore(w)))
                   => /\ me.auth.valid
                      /\ ServerSigned(me.token)
                      /\ me.token.payload.exp >= me.verified_at
                      /\ me.sender = me.token.payload.sub
            /\ (me.pc = "done" /\ me.result.success)
                   => transactions[Len(transactions)].sender_username
                          = me.token.payload.sub
            /\ (\/ me.token.kind # "jwt"
                \/ ~ SignatureVerifies(me.token, SERVER_KEY)
                \/ me.token.payload.exp < me.verified_at)
                   => /\ ~ me.auth.valid
                      /\ me.pc = "done" /\ ~ me.result.success
                      /\ StoreAsBefore(w)

\* an accepted request whose body names another sender than the token
C5_Witness ==
    \E w \in Workers :
        /\ worker[w].entry = "api" /\ Finished(w) /\ worker[w].result.success
        /\ worker[w].body_sender # NoValue
        /\ worker[w].body_sender # worker[w].sender
        /\ Balances # worker[w].pre.balances

Verified(w) == worker[w].pc = "done" /\ worker[w].op = "verify"

\* C9: an issued token verified before its expiry is accepted with its own
\* subject, and every token obtained by altering an issued token is rejected
\* with TOKEN_INVALID.
C9_TokenRoundTrip ==
    \A w \in Workers :
        LET me == worker[w] IN
        Verified(w) =>
            /\ (me.token \in issued /\ me.decoded_at < me.token.payload.exp)
                   => /\ me.auth.valid
                      /\ me.auth.username = me.token.payload.sub
            /\ (me.token \notin issued
                    /\ \E tok \in issued : me.token \in Altered(tok))
                   => /\ ~ me.auth.valid
                      /\ me.auth.error_code = "TOKEN_INVALID"

\* C10: a correctly signed token checked after its expires_at is rejected
\* with TOKEN_INVALID, by the very rejection (code and message) that a token
\* with an invalid signature and a future expiry gets.
C10_ExpiredRejectedLikeForged ==
    \A w \in Workers :
        LET me == worker[w]
            forged == jwt_encode([me.token.payload EXCEPT
                                      !.exp = me.decoded_at + TokenTTL],
                                 OTHER_KEY)
        IN
        (/\ me.verified_at >= 0
         /\ me.token.kind = "jwt"
         /\ SignatureVerifies(me.token, SERVER_KEY)
         /\ me.verified_at > me.token.payload.exp)
        => /\ ~ me.auth.valid
           /\ me.auth.error_code = "TOKEN_INVALID"
           /\ me.auth = verify_token_from_request(forged, me.verified_at,
                                                  me.decoded_at, TRUE)

C10_Witness ==
    \E w \in Workers :
        /\ Verified(w)
        /\ worker[w].token \in issued
        /\ worker[w].verified_at > worker[w].token.payload.exp
        /\ worker[w].auth.error_code = "TOKEN_INVALID"

\* C11: verify_token_from_request answers TOKEN_MISSING for no token,
\* TOKEN_INVALID for a non-empty value whose signature does not verify, whose
\* expiry has passed or whose payload has no subject, and valid with the
\* payload's sub as username for every other token; no other code occurs.
C11_VerifierClassification ==
    \A w \in Workers :
        LET tok == worker[w].token
            a == worker[w].auth
            bad == \/ tok.kind # "jwt"
                   \/ ~ SignatureVerifies(tok, SERVER_KEY)
                   \/ tok.payload.exp < worker[w].decoded_at
                   \/ tok.payload.sub = NoValue
            good == /\ tok.kind = "jwt"
                    /\ SignatureVerifies(tok, SERVER_KEY)
                    /\ tok.payload.exp > worker[w].decoded_at
                    /\ tok.payload.sub # NoValue
        IN
        Verified(w) =>
            /\ a.error_code \in {"", "TOKEN_MISSING", "TOKEN_INVALID"}
            /\ a.valid <=> a.error_code = ""
            /\ tok = NoToken <=> a.error_code = "TOKEN_MISSING"
            /\ (tok # NoToken /\ bad) => a.error_code = "TOKEN_INVALID"
            /\ good => a.valid /\ a.username = tok.payload.sub
            /\ a.valid => ~ bad /\ a.username = tok.payload.sub

\* a correctly signed, unexpired token without a subject is rejected
C11_Witness ==
    \E w \in Workers :
        /\ Verified(w)
        /\ worker[w].token.kind = "jwt"
        /\ SignatureVerifies(worker[w].token, SERVER_KEY)
        /\ worker[w].token.payload.exp > worker[w].decoded_at
        /\ worker[w].token.payload.sub = NoValue
        /\ worker[w].auth = Rejection("TOKEN_INVALID",
                                      "Invalid token: missing username")

FinishedLogin(w) == Finished(w) /\ worker[w].op = "login"

\* the account is missing, or it is there and the password does not match
NoSuchAccount(w) == worker[w].username \notin DOMAIN kodusers
WrongPassword(w) ==
    /\ worker[w].username \in DOMAIN kodusers
    /\ ~ verify_password(worker[w].password, kodusers[worker[w].username].password)

InvalidCredentials == LoginFailure("INVALID_CREDENTIALS", "Invalid credentials")

\* C12: for every non-empty username and non-empty password, login answers
\* an unknown username exactly as it answers a wrong password for a known
\* one: success=false, INVALID_CREDENTIALS, the same message, no token, no uid.
C12_CredentialConflation ==
    \A w \in Workers :
        (/\ FinishedLogin(w) /\ worker[w].faulted_at = ""
         /\ worker[w].username # NoValue /\ worker[w].password # ""
         /\ (NoSuchAccount(w) \/ WrongPassword(w)))
        => worker[w].result = InvalidCredentials

\* C12 amended: the same for every well-formed username (validate_username);
\* a malformed one is answered VALIDATION_ERROR before any lookup.
C12_ConflationForWellFormedNames ==
    /\ \A w \in Workers :
        (/\ FinishedLogin(w) /\ worker[w].faulted_at = ""
         /\ validate_username(worker[w].username) /\ worker[w].password # ""
         /\ (NoSuchAccount(w) \/ WrongPassword(w)))
        => /\ worker[w].result = InvalidCredentials
           /\ ~ worker[w].result.success
           /\ worker[w].result.token = NoToken /\ worker[w].result.uid = ""
    /\ \A v, w \in Workers :
        (/\ FinishedLogin(v) /\ FinishedLogin(w)
         /\ worker[v].faulted_at = "" /\ worker[w].faulted_at = ""
         /\ validate_username(worker[v].username) /\ worker[v].password # ""
         /\ validate_username(worker[w].username) /\ worker[w].password # ""
         /\ NoSuchAccount(v) /\ WrongPassword(w))
        => worker[v].result = worker[w].result

\* one login with an unknown username and one with a wrong password, both
\* answered
C12_Witness ==
    \E v, w \in Workers :
        /\ FinishedLogin(v) /\ FinishedLogin(w)
        /\ worker[v].faulted_at = "" /\ worker[w].faulted_at = ""
        /\ worker[v].password # "" /\ worker[w].password # ""
        /\ validate_username(worker[v].username) /\ NoSuchAccount(v)
        /\ WrongPassword(w)
        /\ worker[v].result.error_code = "INVALID_CREDENTIALS"

\* C13: when login returns success with a token, the token ledger already
\* holds a record with exactly that token and the account's uid; when
\* store_token fails, login returns success=false and no token.
C13_TokenReturnedOnlyIfStored ==
    \A w \in Workers :
        LET me == worker[w] IN
        FinishedLogin(w) =>
            /\ me.result.success =>
                   /\ me.result.token # NoToken
                   /\ me.result.uid = kodusers[me.username].uid
                   /\ \E i \in 1..Len(cjwt) :
                          /\ cjwt[i].token = me.result.token
                          /\ cjwt[i].uid = me.result.uid
            /\ ~ me.result.success => me.result.token = NoToken
            /\ me.faulted_at = "store_token" =>
                   /\ ~ me.result.success
                   /\ me.result.token = NoToken
                   /\ me.result.error_code = "INTERNAL_ERROR"

\* one login that stored and returned its token, one whose store_token failed
C13_Witness ==
    \E v, w \in Workers :
        /\ FinishedLogin(v) /\ worker[v].result.success
        /\ FinishedLogin(w) /\ worker[w].faulted_at = "store_token"

\* a call of register_user ends without a storage fault
RegistrationEnds(w) ==
    /\ worker[w].op = "register" /\ worker[w].pc \in RegisterSteps
    /\ worker'[w].pc = "done" /\ worker'[w].faulted_at = ""

UniqueEmails ==
    \A u, v \in DOMAIN kodusers : u # v => kodusers[u].email # kodusers[v].email

\* every account is still there, with the identity it was created with
AccountsKept ==
    \A u \in DOMAIN kodusers :
        /\ u \in DOMAIN kodusers'
        /\ kodusers'[u].uid = kodusers[u].uid
        /\ kodusers'[u].email = kodusers[u].email

\* C14: under any interleaving of register_user calls no two accounts share
\* a username or an email, and a registration that ends while its username
\* or email is taken returns DUPLICATE_USER and creates no account, also
\* when the other account was inserted after this call's own existence check.
C14_UniqueIdentities ==
    /\ [] UniqueEmails
    /\ [][/\ AccountsKept
          /\ \A w \in Workers :
                (RegistrationEnds(w)
                    /\ user_exists(worker[w].username, worker[w].email))
                => /\ worker'[w].result = Failure("DUPLICATE_USER")
                   /\ kodusers' = kodusers]_vars

\* a registration rejected by the INSERT, after its existence check had found
\* neither its username nor its email
C14_Witness ==
    \E w \in Workers :
        /\ Finished(w) /\ worker[w].op = "register"
        /\ worker[w].passed_check
        /\ worker[w].result = Failure("DUPLICATE_USER")
        /\ user_exists(worker[w].username, worker[w].email)

\* a correctly signed token with a subject, checked before its expiry
GoodToken(w) ==
    /\ worker[w].token.kind = "jwt"
    /\ SignatureVerifies(worker[w].token, SERVER_KEY)
    /\ worker[w].token.payload.exp > worker[w].decoded_at
    /\ worker[w].token.payload.sub # NoValue

\* two checks of one token at the same times, away from the instant exp
SameCheck(v, w) ==
    /\ Verified(v) /\ Verified(w)
    /\ worker[v].token = worker[w].token
    /\ worker[v].verified_at = worker[w].verified_at
    /\ worker[v].decoded_at = worker[w].decoded_at
    /\ worker[v].token.kind = "jwt"
       => worker[v].token.payload.exp
              \notin {worker[v].verified_at, worker[v].decoded_at}

\* C15: verify_token_from_request gives the same result for the same token
\* at the same time whether or not the token ledger holds the token (with
\* whatever expiry); a correctly signed unexpired token is accepted even if
\* never stored, and no login, registration or transfer revokes it.
C15_LedgerIndependent ==
    /\ \A w \in Workers :
           (Verified(w) /\ GoodToken(w))
           => worker[w].auth.valid
                  /\ worker[w].auth.username = worker[w].token.payload.sub
    /\ \A v, w \in Workers : SameCheck(v, w) => worker[v].auth = worker[w].auth

\* one token checked at the same time before it was stored and after, and
\* accepted both times
C15_Witness ==
    \E v, w \in Workers :
        /\ SameCheck(v, w) /\ GoodToken(v)
        /\ ~ worker[v].stored /\ worker[w].stored
        /\ worker[v].auth.valid /\ worker[w].auth.valid

InfrastructureCodes == {"DATABASE_ERROR", "INTERNAL_ERROR"}
BusinessCodes == {"VALIDATION_ERROR", "INVALID_AMOUNT", "INVALID_TRANSFER",
                  "SENDER_NOT_FOUND", "RECEIVER_NOT_FOUND", "INSUFFICIENT_BALANCE"}

\* C16: a transfer_money call hit by a storage fault, on a read or a write,
\* returns success=false with DATABASE_ERROR or INTERNAL_ERROR, never a
\* business-rule code; a call that met no storage fault never returns
\* DATABASE_ERROR or INTERNAL_ERROR.
C16_FaultsAreInfrastructureErrors ==
    \A w \in Workers :
        LET me == worker[w] IN
        (FinishedTransfer(w) /\ me.entry = "call") =>
            /\ me.faulted_at # "" =>
                   /\ ~ me.result.success
                   /\ me.result.error_code \in InfrastructureCodes
            /\ me.faulted_at = "" =>
                   /\ me.result.error_code \notin InfrastructureCodes
                   /\ ~ me.result.success => me.result.error_code \in BusinessCodes

\* a fault on a read in one call, a fault on a write in another
C16_Witness ==
    \E v, w \in Workers :
        /\ FinishedTransfer(v) /\ FinishedTransfer(w)
        /\ worker[v].faulted_at \in {"get_sender", "get_receiver"}
        /\ worker[w].faulted_at \in {"update_sender", "update_receiver",
                                     "insert_transaction"}
        /\ worker[v].result.error_code = "DATABASE_ERROR"
        /\ worker[w].result.error_code = "DATABASE_ERROR"

\* a history read that returned its rows
HistoryReturned(w) ==
    /\ Finished(w) /\ worker[w].op = "history" /\ worker[w].result.success

\* C17: get_transaction_history(u, limit) returns at most limit records, and
\* of any two returned records the one committed later comes first.
C17_HistoryMostRecentFirst ==
    \A w \in Workers :
        LET h == worker[w].history IN
        HistoryReturned(w) =>
            /\ Len(h) <= worker[w].limit
            /\ \A i, j \in 1..Len(h) : i < j => h[i].id > h[j].id

\* C18: get_transaction_history(u, limit) returns only rows of the transfer
\* table in which u is sender or receiver, each once, tagged 'sent' exactly
\* when u is the sender and 'received' otherwise; with no more matching rows
\* than limit, every transfer u sent or received is among them.
C18_HistoryMembershipAndDirection ==
    \A w \in Workers :
        LET h == worker[w].history
            u == worker[w].username
        IN
        HistoryReturned(w) =>
            /\ \A i \in 1..Len(h) :
                   /\ h[i].id \in Matching(u)
                   /\ h[i] = HistoryRow(transactions[h[i].id], u)
                   /\ h[i].status = "completed"
                   /\ \/ h[i].direction = "sent" /\ h[i].sender_username = u
                      \/ /\ h[i].direction = "received"
                         /\ h[i].receiver_username = u
                         /\ h[i].sender_username # u
            /\ \A i, j \in 1..Len(h) : i # j => h[i].id # h[j].id
            /\ Cardinality(Matching(u)) <= worker[w].limit
                   => \A k \in Matching(u) : \E i \in 1..Len(h) : h[i].id = k

\* a history holding a transfer its user sent and one its user received
C18_Witness ==
    \E w \in Workers :
        /\ HistoryReturned(w)
        /\ \E i, j \in 1..Len(worker[w].history) :
               /\ worker[w].history[i].direction = "sent"
               /\ worker[w].history[j].direction = "received"

\* no transfer record names u, and no transfer naming u is between its first
\* statement and its return
Untouched(u) ==
    /\ \A i \in 1..Len(transactions) :
           /\ transactions[i].sender_username # u
           /\ transactions[i].receiver_username # u
    /\ \A w \in Workers :
           (worker[w].op = "transfer" /\ worker[w].pc \in TransferSteps)
           => worker[w].sender # u /\ worker[w].receiver # u

\* C19: every account created by register_user has balance 1000002, whatever
\* the request's fields, and keeps it until the first committed transfer
\* that involves it.
C19_OpeningBalanceKept ==
    \A u \in DOMAIN kodusers : Untouched(u) => kodusers[u].balance = OPENING_BALANCE

\* the account a register_user call of this run has just created
JustRegistered(w) ==
    /\ Finished(w) /\ worker[w].op = "register" /\ worker[w].result.success
    /\ worker[w].username \in DOMAIN kodusers
    /\ Untouched(worker[w].username)

\* C20: the balance read for a newly created user that has made no transfer
\* is 100000, as the unit tests assert.
C20_InitialBalanceOfTests ==
    \A w \in Workers :
        JustRegistered(w) => get_balance(worker[w].username) = TESTS_INITIAL_BALANCE

\* C21: every token generate_token produces expires JWT_EXPIRY_HOURS hours
\* after it was issued, whatever the subject, the role and the moment.
C21_FixedTimeToLive ==
    \A w \in Workers :
        (worker[w].op = "generate" /\ worker[w].result.success)
        => /\ worker[w].jwt.kind = "jwt"
           /\ worker[w].jwt.payload.sub = worker[w].username
           /\ worker[w].jwt.payload.exp
                  = worker[w].jwt.payload.iat + JWT_EXPIRY_HOURS * HourTicks

\* a token for another role than login's, issued after the clock has moved
C21_Witness ==
    \E w \in Workers :
        /\ worker[w].op = "generate" /\ worker[w].result.success
        /\ worker[w].jwt.payload.role = "admin"
        /\ worker[w].jwt.payload.sub = UB
        /\ worker[w].jwt.payload.iat > 0

\* the step at which worker w compares the sender's balance with the amount
BalanceChecked(w) ==
    /\ worker[w].op = "transfer" /\ worker[w].pc = "get_receiver"
    /\ worker[w].receiver \in DOMAIN kodusers
    /\ worker'[w].pc # "get_receiver"

\* C22: the balance transfer_money compares with the amount, and debits, is
\* the sender's stored balance at the moment of the check: the call is
\* rejected as insufficient exactly if the stored balance is below the
\* amount, and otherwise the sender's new balance is the stored balance
\* less the amount.
C22_CheckUsesCurrentBalance ==
    [][\A w \in Workers :
          (BalanceChecked(w) /\ worker[w].faulted_at = "" /\ worker'[w].faulted_at = "")
          => LET me == worker[w]
                 stored == kodusers[me.sender].balance
             IN
             /\ (worker'[w].result.error_code = "INSUFFICIENT_BALANCE")
                    <=> (stored < me.amount)
             /\ worker'[w].pc = "update_sender"
                    => worker'[w].new_sender_balance = stored - me.amount]_vars

\* the sum of the balances the accounts were opened with
OpeningTotal == Cardinality(DOMAIN kodusers) * OPENING_BALANCE

\* the transfer table names account u
Recorded(u) ==
    \E i \in 1..Len(transactions) :
        u \in {transactions[i].sender_username, transactions[i].receiver_username}

\* C23: in every state another request can read, also between the statements
\* of a transfer in flight, the balances sum to the sum of the opening
\* balances, and an account whose balance has changed is named by a transfer
\* record.
C23_NoObservablePartialTransfer ==
    /\ Total(Balances) = OpeningTotal
    /\ \A u \in DOMAIN kodusers :
           Balances[u] # OPENING_BALANCE => Recorded(u)

\* the checks in the order the claim gives them, on the balances bal: the
\* code of the first that fails, "" if none does
FirstFailedCheck(sender, receiver, amount, bal) ==
    IF ~ (validate_username(sender) /\ validate_username(receiver))
    THEN "VALIDATION_ERROR"
    ELSE IF ~ amount.num THEN "VALIDATION_ERROR"
    ELSE IF amount.val <= 0 THEN "INVALID_AMOUNT"
    ELSE IF sender = receiver THEN "INVALID_TRANSFER"
    ELSE IF sender \notin DOMAIN bal THEN "SENDER_NOT_FOUND"
    ELSE IF receiver \notin DOMAIN bal THEN "RECEIVER_NOT_FOUND"
    ELSE IF bal[sender] < amount.val THEN "INSUFFICIENT_BALANCE"
    ELSE ""

C25_TransferRecordInvariants ==
    \A i \in 1..Len(transactions) :
        LET row == transactions[i] IN
        /\ row.amount > 0
        /\ row.sender_username # row.receiver_username
        /\ row.status = "completed"
        /\ row.sender_username \in DOMAIN kodusers
        /\ row.receiver_username \in DOMAIN kodusers

\* a record written for an account registered during the run, after calls
\* that were rejected
C25_Witness ==
    /\ calls = MaxCalls
    /\ Len(transactions) = 1
    /\ transactions[1].receiver_username = UC
    /\ FinishedTransfer(1) /\ ~ worker[1].result.success

\* the workers whose transfer_money call returns success in this step
Succeeding ==
    {w \in Workers : /\ worker[w].pc # "done" /\ worker'[w].pc = "done"
                     /\ worker'[w].op = "transfer"
                     /\ worker'[w].result.success}

Writes(w, u) ==
    /\ worker[w].op = "transfer"
    /\ \/ worker[w].pc = "update_sender" /\ u = worker[w].sender
       \/ worker[w].pc = "update_receiver" /\ u = worker[w].receiver
    /\ worker'[w].pc # worker[w].pc

\* C27: every account stays in the store with every field but the balance
\* unchanged, and a balance changes only in a step of a transfer_money call
\* whose sender or receiver the account is; register_user for another user,
\* login, verify_token_from_request, get_balance and get_transaction_history
\* change no balance.
C27_FrameOfBalanceChanges ==
    [][\A u \in DOMAIN kodusers :
          /\ u \in DOMAIN kodusers'
          /\ [kodusers'[u] EXCEPT !.balance = 0] = [kodusers[u] EXCEPT !.balance = 0]
          /\ kodusers'[u].balance # kodusers[u].balance
                 => \E w \in Workers : Writes(w, u)]_vars

\* a transfer between a and b done, account c registered beside it and
\* still at its opening balance, and a balance read
C27_Witness ==
    /\ UC \in DOMAIN kodusers
    /\ Balances[UC] = OPENING_BALANCE
    /\ Balances[UA] # OPENING_BALANCE
    /\ Balances[UB] # OPENING_BALANCE
    /\ \E w \in Workers : Finished(w) /\ worker[w].op = "balance"

\* names that stand for an exception leaving the function called
Raised == {"ValueError", "Error", "OverflowError"}

\* worker w is inside a call and has a next step to take
CanProceed(w) ==
    ENABLED (TransferStep(w) \/ RegisterStep(w) \/ LoginStep(w))

\* C28: under any interleaving and any storage fault, a call of
\* register_user, login, verify_token_from_request or transfer_money that is
\* under way can always take its next step, and a call that has ended has
\* returned a result, not raised an exception; a failing result carries an
\* error_code (and, for login and verify_token_from_request, whose messages
\* are part of the state, a message).
C28_StructuredResults ==
    \A w \in Workers :
        /\ worker[w].pc \notin {"idle", "done"} => CanProceed(w)
        /\ (Finished(w) /\ worker[w].op \in {"register", "login", "transfer"})
           => \/ worker[w].result.success
              \/ /\ worker[w].result.error_code \notin Raised \cup {""}
                 /\ worker[w].op = "login" => worker[w].result.message # ""
        /\ (Finished(w) /\ worker[w].op = "verify")
           => \/ worker[w].auth.valid
              \/ /\ worker[w].auth.error_code \notin Raised \cup {""}
                 /\ worker[w].auth.message # ""

\* the sum of the amounts of the records that name u in the given column
Recorded_received(u) ==
    LET rows == {i \in 1..Len(transactions) : transactions[i].receiver_username = u}
    IN SumOver([i \in rows |-> transactions[i].amount], rows)

Recorded_sent(u) ==
    LET rows == {i \in 1..Len(transactions) : transactions[i].sender_username = u}
    IN SumOver([i \in rows |-> transactions[i].amount], rows)

TransferInFlight ==
    \E w \in Workers : worker[w].op = "transfer" /\ worker[w].pc # "done"

\* C29: whenever no transfer is in flight, each account's balance is its
\* opening balance plus the amounts recorded as received by it less the
\* amounts recorded as sent by it, and what it is recorded to have sent does
\* not exceed its opening balance plus what it is recorded to have received.
C29_BalancesReconcile ==
    ~ TransferInFlight =>
        \A u \in DOMAIN kodusers :
            /\ Balances[u] = OPENING_BALANCE + Recorded_received(u) - Recorded_sent(u)
            /\ Recorded_sent(u) <= OPENING_BALANCE + Recorded_received(u)

\* C30: every record login writes to the token ledger stores as expiry the
\* exp of the token stored in the same record, however far the clock moves
\* between the generation of the token and the write.
C30_LedgerExpiryMatchesToken ==
    \A i \in 1..Len(cjwt) : cjwt[i].expiry = cjwt[i].token.payload.exp

====
